---- MODULE Spec2Model ----
(***************************************************************************)
(* TimeTracker: the duration arithmetic, the aggregate totals, the         *)
(* duration formatter, the CSV export and the table controller (fetch,     *)
(* edit, save, delete) of DashboardTable.tsx, and the timer, the           *)
(* submission and the suggested task names of TimeLogForm.tsx.             *)
(*                                                                         *)
(* Representation.                                                         *)
(*  - A JavaScript number is a record [nan, v]: NaN, or the integer v.     *)
(*  - A timestamp string is a record [kind, ms]: "absent" is '' (or null,   *)
(*    where the code does not tell the two apart), "null" is null,         *)
(*    "invalid" is a non-empty string new Date() cannot parse, "iso" is a  *)
(*    string new Date() parses to the instant ms (milliseconds since the   *)
(*    epoch).                                                              *)
(*  - A text string is a sequence of one-character strings.                *)
(***************************************************************************)
EXTENDS Integers, Sequences, FiniteSets, TLC

VARIABLES
    argStart,       \* calculateHoursWorked: the startTime argument
    argEnd,         \* calculateHoursWorked: the endTime argument
    out,            \* the result of the last pure operation applied
    logs,           \* DashboardTable: the loaded entry list
    shuffled,       \* a permutation of logs (the list in another order)
    taskName,       \* TimeLogForm: the form fields ...
    notes,
    startTime,
    endTime,
    timerRunning,   \* TimeLogForm: timer mode, FALSE = idle
    timerStart,     \* TimeLogForm: the Date the timer was started at, or null
    timerElapsed,   \* TimeLogForm: seconds shown by the elapsed display
    interval,       \* TimeLogForm: the setInterval timers not yet cleared
    now,            \* the wall clock, Date.now(), in milliseconds
    suggestedTasks, \* TimeLogForm: the names offered by the task-name datalist
    inserts,        \* TimeLogForm: the insert calls the store has not answered
    toast,          \* TimeLogForm: the toast shown or updated last
    tasksFetch,     \* TimeLogForm: the task-name select issued on mount
    storeTasks,     \* the task_name values of the rows of time_logs
    savedTasks,     \* the task names whose insert the form saw succeed
    loading,        \* DashboardTable: the select of the mount is awaited
    error,          \* DashboardTable: the error message state, '' when none
    editingId,      \* DashboardTable: the id of the row being edited, or null
    editForm,       \* DashboardTable: the draft of the row being edited
    selects,        \* DashboardTable: the select calls issued so far
    logsFetch,      \* DashboardTable: the select of the mount
    calls           \* DashboardTable: the update and delete calls in flight

calcVars == <<argStart, argEnd>>
logVars == <<logs, shuffled>>
formVars == <<taskName, notes, startTime, endTime, timerRunning, timerStart,
              timerElapsed, interval, now>>
submitVars == <<suggestedTasks, inserts, toast, tasksFetch, storeTasks,
                savedTasks>>
tableVars == <<loading, error, editingId, editForm, selects, logsFetch, calls>>
vars == <<argStart, argEnd, out, logs, shuffled, taskName, notes, startTime,
          endTime, timerRunning, timerStart, timerElapsed, interval, now,
          suggestedTasks, inserts, toast, tasksFetch, storeTasks, savedTasks,
          loading, error, editingId, editForm, selects, logsFetch, calls>>

(***************************************************************************)
(* Bounds of the model.                                                    *)
(***************************************************************************)
MaxHour == 2        \* calculateHoursWorked inputs span 0..MaxHour hours
MaxLogs == 2        \* longest entry list drawn
MaxNowSec == 190    \* the clock stops advancing after this many seconds
MaxInFlight == 1    \* insert calls awaiting the store's answer at once
MaxWaitSec == 1     \* seconds that pass while a form is being submitted
MaxRows == 2        \* rows of time_logs the table loads
MaxCalls == 1       \* update and delete calls awaiting the store's answer
MaxDeleteRows == 3  \* rows of the table whose deletes overlap
MaxDeletes == 2     \* delete calls awaiting the store's answer at once

(***************************************************************************)
(* Program constants.                                                      *)
(***************************************************************************)
MsPerHour == 3600000
MsPerMinute == 60000
MinutesPerHour == 60
MsPerSecond == 1000

(***************************************************************************)
(* JavaScript numbers and timestamp strings.                               *)
(***************************************************************************)
NaN == [nan |-> TRUE, v |-> 0]
Num(n) == [nan |-> FALSE, v |-> n]
IsNum(x) == ~x.nan

Absent == [kind |-> "absent", ms |-> 0]
Invalid == [kind |-> "invalid", ms |-> 0]
Iso(t) == [kind |-> "iso", ms |-> t]
Null == [kind |-> "null", ms |-> 0]

\* !s : the empty string and null are falsy, every other string is truthy
Falsy(s) == s.kind \in {"absent", "null"}

\* new Date(s).getTime()
getTime(s) ==
    IF s.kind = "iso" THEN Num(s.ms)
    ELSE IF s.kind = "null" THEN Num(0)
    ELSE NaN

\* a - b
Sub(a, b) == IF a.nan \/ b.nan THEN NaN ELSE Num(a.v - b.v)

\* a + b
Add(a, b) == IF a.nan \/ b.nan THEN NaN ELSE Num(a.v + b.v)

\* a * k
Times(a, k) == IF a.nan THEN NaN ELSE Num(a.v * k)

\* a < 0 : every comparison with NaN is false
Negative(a) == ~a.nan /\ a.v < 0

\* Math.floor(a / k), for a >= 0
FloorDiv(a, k) == IF a.nan THEN NaN ELSE Num(a.v \div k)

\* a % k, for a >= 0
Rem(a, k) == IF a.nan THEN NaN ELSE Num(a.v % k)

\* Math.floor((a / k) % m), for a >= 0: a / k is q + f with q the integer
\* quotient and 0 <= f < 1, (q + f) % m is (q % m) + f, whose floor is q % m
FloorDivRem(a, k, m) == IF a.nan THEN NaN ELSE Num((a.v \div k) % m)

(***************************************************************************)
(* DashboardTable.tsx: calculateHoursWorked.                               *)
(***************************************************************************)
\* calculateHoursWorked without the clamp of a negative difference
calculateHoursWorkedNoClamp(st, en) ==
    IF Falsy(st) \/ Falsy(en) THEN <<Num(0), Num(0)>>
    ELSE LET diffMs == Sub(getTime(en), getTime(st))
         IN  <<FloorDiv(diffMs, MsPerHour),
               FloorDivRem(diffMs, MsPerMinute, MinutesPerHour)>>

\* calculateHoursWorked with the minutes rounded to the nearest minute
calculateHoursWorkedRounded(st, en) ==
    IF Falsy(st) \/ Falsy(en) THEN <<Num(0), Num(0)>>
    ELSE LET diffMs == Sub(getTime(en), getTime(st))
         IN  IF Negative(diffMs) THEN <<Num(0), Num(0)>>
             ELSE <<FloorDiv(diffMs, MsPerHour),
                    FloorDivRem(Add(diffMs, Num(MsPerMinute \div 2)),
                                MsPerMinute, MinutesPerHour)>>

calculateHoursWorked(st, en) ==
    IF Falsy(st) \/ Falsy(en) THEN <<Num(0), Num(0)>>
    ELSE LET diffMs == Sub(getTime(en), getTime(st))
         IN  IF Negative(diffMs) THEN <<Num(0), Num(0)>>
             ELSE <<FloorDiv(diffMs, MsPerHour),
                    FloorDivRem(diffMs, MsPerMinute, MinutesPerHour)>>

(***************************************************************************)
(* Text: a string is a sequence of one-character strings.                  *)
(***************************************************************************)
DQ == "\""
COMMA == ","
NL == "\n"

DigitChar(d) ==
    CASE d = 0 -> "0" [] d = 1 -> "1" [] d = 2 -> "2" [] d = 3 -> "3"
      [] d = 4 -> "4" [] d = 5 -> "5" [] d = 6 -> "6" [] d = 7 -> "7"
      [] d = 8 -> "8" [] d = 9 -> "9"

RECURSIVE Digits(_)
\* the decimal digits of n >= 0
Digits(n) == IF n < 10 THEN <<DigitChar(n)>>
             ELSE Digits(n \div 10) \o <<DigitChar(n % 10)>>

\* String(x) of a number: template literals and + 'h ' render NaN as "NaN"
NumToText(x) == IF x.nan THEN <<"N", "a", "N">> ELSE Digits(x.v)

\* two-digit rendering (hour: '2-digit', minute: '2-digit')
Pad2(n) == IF n < 10 THEN <<"0">> \o Digits(n) ELSE Digits(n)

RECURSIVE Join(_, _)
\* parts.join(sep)
Join(parts, sep) ==
    IF Len(parts) = 0 THEN <<>>
    ELSE IF Len(parts) = 1 THEN parts[1]
    ELSE parts[1] \o sep \o Join(Tail(parts), sep)

RECURSIVE ReplaceQuotes(_)
\* txt.replace(/"/g, '""')
ReplaceQuotes(txt) ==
    IF Len(txt) = 0 THEN <<>>
    ELSE (IF Head(txt) = DQ THEN <<DQ, DQ>> ELSE <<Head(txt)>>)
         \o ReplaceQuotes(Tail(txt))

(***************************************************************************)
(* DashboardTable.tsx: formatDateTime.  The text is the runtime locale's;  *)
(* the model renders the day count since the epoch, then ", ", then the    *)
(* two-digit hour and minute.  Seconds are not shown.                      *)
(***************************************************************************)
MsPerDay == 24 * MsPerHour

formatDateTime(dt) ==
    IF Falsy(dt) THEN <<>>
    ELSE IF dt.kind = "invalid"
         THEN <<"I", "n", "v", "a", "l", "i", "d", " ", "D", "a", "t", "e">>
    ELSE Digits(dt.ms \div MsPerDay) \o <<",", " ">>
         \o Pad2((dt.ms % MsPerDay) \div MsPerHour) \o <<":">>
         \o Pad2((dt.ms % MsPerHour) \div MsPerMinute)

(***************************************************************************)
(* DashboardTable.tsx: formatDuration.                                     *)
(***************************************************************************)
\* x === 0
IsZero(x) == ~x.nan /\ x.v = 0

\* x > 0
Positive(x) == ~x.nan /\ x.v > 0

\* the formatter that drops a zero unit (formatHoursAndMinutes)
formatDurationDropZeroUnit(h, m) ==
    IF IsZero(h) /\ IsZero(m) THEN <<"0", "h", " ", "0", "m">>
    ELSE IF IsZero(h) THEN NumToText(m) \o <<"m">>
    ELSE IF IsZero(m) THEN NumToText(h) \o <<"h">>
    ELSE NumToText(h) \o <<"h", " ">> \o NumToText(m) \o <<"m">>

formatDuration(h, m) ==
    IF IsZero(h) /\ IsZero(m) THEN <<"0", "m">>
    ELSE (IF Positive(h) THEN NumToText(h) \o <<"h", " ">> ELSE <<>>)
         \o NumToText(m) \o <<"m">>

(***************************************************************************)
(* DashboardTable.tsx: the aggregate totals (useMemo over logs).           *)
(***************************************************************************)
\* the loop step with = in place of += : the sum is overwritten
AddEntryOverwrite(tMin, l) ==
    LET hm == calculateHoursWorked(l.start_time, l.end_time)
    IN  Add(Times(hm[1], MinutesPerHour), hm[2])

\* one step of logs.forEach: tMin += (h * 60) + m
AddEntry(tMin, l) ==
    LET hm == calculateHoursWorked(l.start_time, l.end_time)
    IN  Add(tMin, Add(Times(hm[1], MinutesPerHour), hm[2]))

RECURSIVE SumMinutes(_, _)
\* the forEach loop, entries taken in list order
SumMinutes(ls, tMin) ==
    IF Len(ls) = 0 THEN tMin
    ELSE SumMinutes(Tail(ls), AddEntry(tMin, Head(ls)))

Totals(ls) ==
    LET tMin == SumMinutes(ls, Num(0))
    IN  [totalHours |-> FloorDiv(tMin, MinutesPerHour),
         totalMinutes |-> Rem(tMin, MinutesPerHour)]

(***************************************************************************)
(* DashboardTable.tsx: handleExportCSV.                                    *)
(***************************************************************************)
headers == << <<"T", "a", "s", "k">>,
              <<"S", "t", "a", "r", "t">>,
              <<"E", "n", "d">>,
              <<"D", "u", "r", "a", "t", "i", "o", "n">>,
              <<"N", "o", "t", "e", "s">> >>

\* an escape that quotes only a cell holding a comma, a quote or a newline
escapeWhenSpecial(txt) ==
    IF \E i \in 1..Len(txt) : txt[i] \in {COMMA, DQ, NL}
    THEN <<DQ>> \o ReplaceQuotes(txt) \o <<DQ>>
    ELSE txt

\* escape: `"${String(txt || '').replace(/"/g, '""')}"`
escape(txt) == <<DQ>> \o ReplaceQuotes(txt) \o <<DQ>>

\* the five cell values of a row, before escaping
RowCells(l) ==
    LET hm == calculateHoursWorked(l.start_time, l.end_time)
    IN  << l.task_name,
           formatDateTime(l.start_time),
           formatDateTime(l.end_time),
           formatDuration(hm[1], hm[2]),
           l.notes >>

csvRow(l) ==
    LET c == RowCells(l)
    IN  Join(<<escape(c[1]), escape(c[2]), escape(c[3]), escape(c[4]),
               escape(c[5])>>, <<COMMA>>)

\* the rows in reverse list order
csvRowsReversed(ls) == [i \in 1..Len(ls) |-> csvRow(ls[Len(ls) + 1 - i])]

csvRows(ls) == [i \in 1..Len(ls) |-> csvRow(ls[i])]

csvString(ls) == Join(<<Join(headers, <<COMMA>>)>> \o csvRows(ls), <<NL>>)

\* the handler without its guard on the empty list
handleExportCSVNoGuard(ls) ==
    [file |-> TRUE, csv |-> csvString(ls), signal |-> <<>>]

\* what one call of the handler does: whether a blob is made and the link
\* clicked, the blob's text, and the messages shown to the user (none)
handleExportCSV(ls) ==
    IF Len(ls) = 0
    THEN [file |-> FALSE, csv |-> <<>>, signal |-> <<>>]
    ELSE [file |-> TRUE, csv |-> csvString(ls), signal |-> <<>>]

(***************************************************************************)
(* TimeLogForm.tsx: the suggested task names.                              *)
(***************************************************************************)
PREDEFINED_TASKS ==
    << <<"R", "e", "a", "d", "i", "n", "g", " ", "P", "a", "p", "e", "r",
         "s", "/", "T", "h", "e", "o", "r", "y">>,
       <<"P", "r", "o", "j", "e", "c", "t", " ", "R", "e", "p", "o", "r",
         "t", " ", "W", "r", "i", "t", "i", "n", "g">>,
       <<"P", "r", "e", "s", "e", "n", "t", "a", "t", "i", "o", "n", " ",
         "P", "r", "e", "p", "a", "r", "a", "t", "i", "o", "n">>,
       <<"P", "r", "o", "t", "o", "t", "y", "p", "e", " ", "P", "r", "o",
         "g", "r", "a", "m", "m", "i", "n", "g">>,
       <<"M", "e", "e", "t", "i", "n", "g", "/", "D", "i", "s", "c", "u",
         "s", "s", "i", "o", "n">>,
       <<"G", "e", "n", "e", "r", "a", "l", " ", "A", "d", "m", "i", "n",
         "/", "P", "l", "a", "n", "n", "i", "n", "g">>,
       <<"B", "u", "g", " ", "F", "i", "x", "i", "n", "g">> >>

Upper == <<"A", "B", "C", "D", "E", "F", "G", "H", "I", "J", "K", "L",
            "M", "N", "O", "P", "Q", "R", "S", "T", "U", "V", "W", "X",
            "Y", "Z">>
Lower == <<"a", "b", "c", "d", "e", "f", "g", "h", "i", "j", "k", "l",
            "m", "n", "o", "p", "q", "r", "s", "t", "u", "v", "w", "x",
            "y", "z">>

\* the UTF-16 code unit of a character of the names
charCodeAt(c) ==
    IF c = " " THEN 32
    ELSE IF c = "/" THEN 47
    ELSE IF \E i \in DOMAIN Upper : Upper[i] = c
         THEN 64 + (CHOOSE i \in DOMAIN Upper : Upper[i] = c)
         ELSE 96 + (CHOOSE i \in DOMAIN Lower : Lower[i] = c)

\* the default comparison of Array.prototype.sort: a sorts before b when a
\* is a proper prefix of b, or has the smaller code unit at the first
\* position where the two differ
SortsBefore(a, b) ==
    LET n == IF Len(a) < Len(b) THEN Len(a) ELSE Len(b)
        differ == { k \in 1..n : a[k] # b[k] }
    IN  IF differ = {} THEN Len(a) < Len(b)
        ELSE LET k == CHOOSE i \in differ : \A j \in differ : i <= j
             IN  charCodeAt(a[k]) < charCodeAt(b[k])

Range(s) == { s[i] : i \in DOMAIN s }

\* Array.from(new Set(xs)).sort(): the distinct names in ascending order,
\* built by putting each name after the names that sort before it
RECURSIVE SortedNames(_)
SortedNames(S) ==
    IF S = {} THEN <<>>
    ELSE LET x == CHOOSE n \in S : TRUE
             rest == SortedNames(S \ {x})
             k == Cardinality({ i \in DOMAIN rest : SortsBefore(rest[i], x) })
         IN  SubSeq(rest, 1, k) \o <<x>> \o SubSeq(rest, k + 1, Len(rest))

(***************************************************************************)
(* TimeLogForm.tsx: the timer.                                             *)
(***************************************************************************)
NoDate == [set |-> FALSE, ms |-> 0]         \* timerStart === null
DateAt(t) == [set |-> TRUE, ms |-> t]       \* a Date object

\* a formatter that keeps the seconds and milliseconds of the date
formatDateTimeLocalKeepSeconds(date) == Iso(date)

\* formatDateTimeLocal: the local year, month, day, hour and minute of the
\* date, without its seconds.  Read back as a local time the text denotes
\* the start of the date's minute (zone offsets are whole minutes).
formatDateTimeLocal(date) == Iso((date \div MsPerMinute) * MsPerMinute)

\* a timer effect that returns no cleanup
TimerEffectNoCleanup(running, start) ==
    IF running /\ start.set
    THEN /\ interval' = interval + 1
         /\ UNCHANGED timerElapsed
    ELSE /\ UNCHANGED interval
         /\ timerElapsed' = 0

\* the timer effect, run when timerRunning or timerStart changed: the
\* previous run's interval is cleared, then an interval is set while the
\* timer runs, and the elapsed display is reset to 0 otherwise
\* (the cleanup clears the timer of the run before, if that run set one;
\* the run before ran with the timerRunning and timerStart of this state)
TimerEffect(running, start) ==
    LET cleared == IF timerRunning /\ timerStart.set THEN 1 ELSE 0
    IN  IF running /\ start.set
        THEN /\ interval' = interval - cleared + 1
             /\ UNCHANGED timerElapsed
        ELSE /\ interval' = interval - cleared
             /\ timerElapsed' = 0

handleTimerClick ==
    /\ \/ /\ ~timerRunning
          /\ timerStart' = DateAt(now)
          /\ startTime' = formatDateTimeLocal(now)
          /\ endTime' = Absent
          /\ timerRunning' = TRUE
          /\ TimerEffect(TRUE, DateAt(now))
       \/ /\ timerRunning
          /\ endTime' = formatDateTimeLocal(now)
          /\ timerRunning' = FALSE
          /\ TimerEffect(FALSE, timerStart)
          /\ UNCHANGED <<timerStart, startTime>>
    /\ UNCHANGED <<taskName, notes, now>>
    /\ UNCHANGED <<argStart, argEnd, out, logs, shuffled, submitVars,
                   tableVars>>

\* the setInterval callback
IntervalTick ==
    /\ interval > 0
    /\ timerElapsed' = (now - timerStart.ms) \div MsPerSecond
    /\ UNCHANGED <<taskName, notes, startTime, endTime, timerRunning,
                   timerStart, interval, now>>
    /\ UNCHANGED <<argStart, argEnd, out, logs, shuffled, submitVars,
                   tableVars>>

\* time passes
Delays == {55 * MsPerSecond, 125 * MsPerSecond}

PassTime ==
    /\ \E d \in Delays :
          /\ now + d <= MaxNowSec * MsPerSecond
          /\ now' = now + d
    /\ UNCHANGED <<taskName, notes, startTime, endTime, timerRunning,
                   timerStart, timerElapsed, interval>>
    /\ UNCHANGED <<argStart, argEnd, out, logs, shuffled, submitVars,
                   tableVars>>

\* the user types into the form's inputs (onChange)
TypedNames == {<<>>, <<"C">>}
TypedNotes == {<<>>, <<"n">>}
TypedTimes == {Absent, Iso(0)}

setTaskName ==
    /\ \E v \in TypedNames : taskName' = v
    /\ UNCHANGED <<notes, startTime, endTime, timerRunning, timerStart,
                   timerElapsed, interval, now>>
    /\ UNCHANGED <<argStart, argEnd, out, logs, shuffled, submitVars,
                   tableVars>>

setNotes ==
    /\ \E v \in TypedNotes : notes' = v
    /\ UNCHANGED <<taskName, startTime, endTime, timerRunning, timerStart,
                   timerElapsed, interval, now>>
    /\ UNCHANGED <<argStart, argEnd, out, logs, shuffled, submitVars,
                   tableVars>>

setStartTime ==
    /\ \E v \in TypedTimes : startTime' = v
    /\ UNCHANGED <<taskName, notes, endTime, timerRunning, timerStart,
                   timerElapsed, interval, now>>
    /\ UNCHANGED <<argStart, argEnd, out, logs, shuffled, submitVars,
                   tableVars>>

setEndTime ==
    /\ \E v \in TypedTimes : endTime' = v
    /\ UNCHANGED <<taskName, notes, startTime, timerRunning, timerStart,
                   timerElapsed, interval, now>>
    /\ UNCHANGED <<argStart, argEnd, out, logs, shuffled, submitVars,
                   tableVars>>

(***************************************************************************)
(* TimeLogForm.tsx: the submission and the task-name fetch.                *)
(***************************************************************************)
NoToast == [kind |-> "none", title |-> "", description |-> <<>>]

\* `Task: ` of the success toast's description
TaskPrefix == <<"T", "a", "s", "k", ":", " ">>

\* the messages of the errors the store reports
StoreMessages == {<<"e", "1">>}

Remove(s, i) == SubSeq(s, 1, i - 1) \o SubSeq(s, i + 1, Len(s))

\* a form whose inputs are not required
checkValidityNoRequired == TRUE

\* the browser's validation of the form before it fires the submit event:
\* the taskName and the startTime inputs are `required`, the endTime input
\* and the notes textarea are not
checkValidity == taskName # <<>> /\ startTime.kind # "absent"

\* handleSubmit up to its await: the loading toast is shown and the insert
\* is called with the fields of the render the form was submitted in
handleSubmit ==
    /\ checkValidity
    /\ Len(inserts) < MaxInFlight
    /\ toast' = [kind |-> "loading", title |-> "Saving time log...",
                 description |-> <<>>]
    /\ inserts' = Append(inserts, [task_name |-> taskName,
                                   start_time |-> startTime,
                                   end_time |-> endTime, notes |-> notes])
    /\ UNCHANGED <<formVars, suggestedTasks, tasksFetch, storeTasks,
                   savedTasks>>
    /\ UNCHANGED <<calcVars, out, logVars, tableVars>>

\* a success branch that leaves the timer as it is
handleSubmitSuccessKeepsTimer(req) ==
    /\ toast' = [kind |-> "success", title |-> "Time log saved successfully!",
                 description |-> TaskPrefix \o req.task_name]
    /\ suggestedTasks' =
           SortedNames(Range(suggestedTasks) \cup {req.task_name})
    /\ taskName' = <<>>
    /\ notes' = <<>>
    /\ startTime' = Absent
    /\ endTime' = Absent
    /\ UNCHANGED <<timerRunning, timerStart, timerElapsed, interval>>

\* the success branch of handleSubmit, for the call req; taskName is the
\* one of the submitting render.  The timer effect runs when timerRunning
\* or timerStart changed; when neither did, the timer was idle with no
\* interval and setTimerElapsed(0) alone resets the display.
handleSubmitSuccess(req) ==
    /\ toast' = [kind |-> "success", title |-> "Time log saved successfully!",
                 description |-> TaskPrefix \o req.task_name]
    /\ suggestedTasks' =
           SortedNames(Range(suggestedTasks) \cup {req.task_name})
    /\ taskName' = <<>>
    /\ notes' = <<>>
    /\ startTime' = Absent
    /\ endTime' = Absent
    /\ timerRunning' = FALSE
    /\ timerStart' = NoDate
    /\ TimerEffect(FALSE, NoDate)

\* an error branch that clears the form
handleSubmitErrorClears(msg) ==
    /\ toast' = [kind |-> "error", title |-> "Failed to save time log",
                 description |-> msg]
    /\ taskName' = <<>>
    /\ notes' = <<>>
    /\ startTime' = Absent
    /\ endTime' = Absent
    /\ UNCHANGED <<timerRunning, timerStart, timerElapsed, interval,
                   suggestedTasks>>

\* the error branch of handleSubmit: the store reported msg
handleSubmitError(msg) ==
    /\ toast' = [kind |-> "error", title |-> "Failed to save time log",
                 description |-> msg]
    /\ UNCHANGED <<taskName, notes, startTime, endTime, timerRunning,
                   timerStart, timerElapsed, interval, suggestedTasks>>

\* the catch of handleSubmit: the insert call threw
handleSubmitCatch ==
    /\ toast' = [kind |-> "error", title |-> "An unexpected error occurred",
                 description |-> <<>>]
    /\ UNCHANGED <<taskName, notes, startTime, endTime, timerRunning,
                   timerStart, timerElapsed, interval, suggestedTasks>>

\* the store answers an insert call: the row is stored
InsertSucceeds ==
    /\ \E i \in DOMAIN inserts :
          /\ inserts' = Remove(inserts, i)
          /\ storeTasks' = storeTasks \cup {inserts[i].task_name}
          /\ savedTasks' = savedTasks \cup {inserts[i].task_name}
          /\ handleSubmitSuccess(inserts[i])
    /\ UNCHANGED <<now, tasksFetch>>
    /\ UNCHANGED <<calcVars, out, logVars, tableVars>>

\* the store answers an insert call with an error: no row is stored
InsertFails ==
    /\ \E i \in DOMAIN inserts :
          /\ inserts' = Remove(inserts, i)
          /\ \E msg \in StoreMessages : handleSubmitError(msg)
    /\ UNCHANGED <<now, tasksFetch, storeTasks, savedTasks>>
    /\ UNCHANGED <<calcVars, out, logVars, tableVars>>

\* an insert call throws; the row may or may not have reached the store
InsertThrows ==
    /\ \E i \in DOMAIN inserts :
          /\ inserts' = Remove(inserts, i)
          /\ storeTasks' \in {storeTasks,
                              storeTasks \cup {inserts[i].task_name}}
          /\ handleSubmitCatch
    /\ UNCHANGED <<now, tasksFetch, savedTasks>>
    /\ UNCHANGED <<calcVars, out, logVars, tableVars>>

\* the task-name select issued by the mount effect, not yet at the store
FetchSent == [st |-> "sent", data |-> {}]

\* the store answers the select with the names it holds, or with an error
SelectTasks ==
    /\ tasksFetch.st = "sent"
    /\ \/ tasksFetch' = [st |-> "data", data |-> storeTasks]
       \/ tasksFetch' = [st |-> "error", data |-> {}]
    /\ UNCHANGED <<formVars, suggestedTasks, inserts, toast, storeTasks,
                   savedTasks>>
    /\ UNCHANGED <<calcVars, out, logVars, tableVars>>

\* fetchTasks after its await: the answer of the select arrives
fetchTasks ==
    /\ tasksFetch.st \in {"data", "error"}
    /\ tasksFetch' = [st |-> "done", data |-> {}]
    /\ IF tasksFetch.st = "data"
       THEN LET dbTasks == { n \in tasksFetch.data : n # <<>> }
            IN  suggestedTasks' =
                    SortedNames(Range(PREDEFINED_TASKS) \cup dbTasks)
       ELSE UNCHANGED suggestedTasks
    /\ UNCHANGED <<formVars, inserts, toast, storeTasks, savedTasks>>
    /\ UNCHANGED <<calcVars, out, logVars, tableVars>>

\* a second passes
PassSecond ==
    /\ now + MsPerSecond <= MaxWaitSec * MsPerSecond
    /\ now' = now + MsPerSecond
    /\ UNCHANGED <<taskName, notes, startTime, endTime, timerRunning,
                   timerStart, timerElapsed, interval>>
    /\ UNCHANGED <<calcVars, out, logVars, submitVars, tableVars>>

(***************************************************************************)
(* DashboardTable.tsx: the table controller.                               *)
(***************************************************************************)
NoId == 0           \* editingId === null; the ids of the rows start at 1

\* editForm === {}
NoDraft == [id |-> NoId, task_name |-> <<>>, start_time |-> Absent,
            end_time |-> Absent, notes |-> <<>>]

\* the body of an update call; none for a delete call
NoBody == [task_name |-> <<>>, start_time |-> Absent, end_time |-> Absent,
           notes |-> <<>>]

\* the rows of time_logs: row 1 has the latest start_time; the rows with an
\* odd id have no end_time
TableRow(i) ==
    [id |-> i, task_name |-> <<"a">>,
     start_time |-> Iso((8 - i) * MsPerHour),
     end_time |-> IF i % 2 = 1 THEN Null
                  ELSE Iso((8 - i) * MsPerHour + 45 * MsPerMinute),
     notes |-> <<>>]

\* the data select('*').order('start_time', {ascending: false}) can return
StoreLists == { [i \in 1..n |-> TableRow(i)] : n \in 0..MaxRows }

\* what the user types into the inputs of the row being edited
DraftNames == {<<"b">>}
DraftNotes == {<<"n">>}
DraftTimes == {Iso(5 * MsPerHour)}

\* an aggregate that takes the open draft for the row being edited, as the
\* duration cell of the row does
totalsMemoWithDraft ==
    Totals([k \in DOMAIN logs |->
               IF logs[k].id = editingId THEN editForm ELSE logs[k]])

\* useMemo(..., [logs]): the aggregate is computed anew in every render whose
\* list is not the list of the render before
totalsMemo == Totals(logs)

\* what the component renders of its state: the spinner while loading, the
\* rows otherwise, the inputs of the row being edited, the aggregate in the
\* footer; no element of the JSX reads the error state
View ==
    [spinner |-> loading,
     rows |-> IF loading THEN <<>> ELSE logs,
     editing |-> IF loading THEN NoId ELSE editingId,
     totals |-> totalsMemo,
     message |-> <<>>]

\* disabled={loading || logs.length === 0} of the export button
exportDisabled == loading \/ Len(logs) = 0

\* the row with this id is rendered, as an editing row or as a plain row
Rendered(id) == ~loading /\ \E k \in DOMAIN logs : logs[k].id = id

\* new Date(s).toISOString(): throws a RangeError on an invalid date;
\* new Date(null) is the epoch
ValidDate(s) == s.kind \in {"iso", "null"}
toISOString(s) == IF s.kind = "null" THEN Iso(0) ELSE s

\* a fetch that tries again after an error
fetchLogsErrorRetries(msg) ==
    /\ error' = msg
    /\ selects' = selects + 1
    /\ logsFetch' = "sent"
    /\ UNCHANGED <<logs, loading>>

\* an error branch that returns before setLoading(false)
fetchLogsErrorKeepsLoading(msg) ==
    /\ error' = msg
    /\ logsFetch' = "failed"
    /\ UNCHANGED <<logs, loading, selects>>

\* fetchLogs after its await, the select having failed with msg
fetchLogsError(msg) ==
    /\ error' = msg
    /\ loading' = FALSE
    /\ logsFetch' = "failed"
    /\ UNCHANGED <<logs, selects>>

\* the store answers the select of the mount with its rows
FetchLogsSucceeds ==
    /\ logsFetch = "sent"
    /\ \E data \in StoreLists : logs' = data
    /\ loading' = FALSE
    /\ logsFetch' = "ok"
    /\ UNCHANGED <<error, editingId, editForm, selects, calls>>
    /\ UNCHANGED <<calcVars, out, shuffled, formVars, submitVars>>

\* the store answers the select of the mount with an error
FetchLogsFails ==
    /\ logsFetch = "sent"
    /\ \E msg \in StoreMessages : fetchLogsError(msg)
    /\ UNCHANGED <<editingId, editForm, calls>>
    /\ UNCHANGED <<calcVars, out, shuffled, formVars, submitVars>>

\* an Edit button that opens the row with the draft left by the last edit
startEditingKeepsDraft ==
    /\ \E k \in DOMAIN logs :
          /\ Rendered(logs[k].id)
          /\ editingId # logs[k].id
          /\ editingId' = logs[k].id
          /\ editForm' = IF editForm = NoDraft THEN logs[k] ELSE editForm
    /\ UNCHANGED <<logs, loading, error, selects, logsFetch, calls>>
    /\ UNCHANGED <<calcVars, out, shuffled, formVars, submitVars>>

\* the Edit button of a plain row
startEditing ==
    /\ \E k \in DOMAIN logs :
          /\ Rendered(logs[k].id)
          /\ editingId # logs[k].id
          /\ editingId' = logs[k].id
          /\ editForm' = logs[k]
    /\ UNCHANGED <<logs, loading, error, selects, logsFetch, calls>>
    /\ UNCHANGED <<calcVars, out, shuffled, formVars, submitVars>>

\* the Cancel button of the row being edited
cancelEditing ==
    /\ Rendered(editingId)
    /\ editingId' = NoId
    /\ UNCHANGED <<logs, loading, error, editForm, selects, logsFetch, calls>>
    /\ UNCHANGED <<calcVars, out, shuffled, formVars, submitVars>>

\* the onChange handlers of the inputs of the row being edited; the two
\* datetime inputs store new Date(value).toISOString()
onChangeDraft ==
    /\ Rendered(editingId)
    /\ \/ \E v \in DraftNames : editForm' = [editForm EXCEPT !.task_name = v]
       \/ \E v \in DraftTimes :
             editForm' = [editForm EXCEPT !.start_time = toISOString(v)]
       \/ \E v \in DraftTimes :
             editForm' = [editForm EXCEPT !.end_time = toISOString(v)]
       \/ \E v \in DraftNotes : editForm' = [editForm EXCEPT !.notes = v]
    /\ UNCHANGED <<logs, loading, error, editingId, selects, logsFetch, calls>>
    /\ UNCHANGED <<calcVars, out, shuffled, formVars, submitVars>>

\* saveEditing(id) up to its await: the update is called with the draft of
\* the render the button was clicked in; when a time of the draft is not a
\* valid date, toISOString throws before the call is made
saveEditing(id) ==
    IF ValidDate(editForm.start_time) /\ ValidDate(editForm.end_time)
    THEN /\ Len(calls) < MaxCalls
         /\ calls' = Append(calls,
                [op |-> "update", id |-> id, draft |-> editForm,
                 body |-> [task_name |-> editForm.task_name,
                           start_time |-> toISOString(editForm.start_time),
                           end_time |-> toISOString(editForm.end_time),
                           notes |-> editForm.notes],
                 prev |-> <<>>])
    ELSE UNCHANGED calls

\* the Save button of the row being edited
SaveClick ==
    /\ Rendered(editingId)
    /\ saveEditing(editingId)
    /\ UNCHANGED <<logs, loading, error, editingId, editForm, selects,
                   logsFetch>>
    /\ UNCHANGED <<calcVars, out, shuffled, formVars, submitVars>>

\* a success branch that merges the draft into every row
saveEditingSuccessAllRows(c) ==
    /\ logs' = [k \in DOMAIN logs |-> c.draft]
    /\ editingId' = NoId
    /\ UNCHANGED <<error, editForm>>

\* saveEditing after its await, the update having succeeded: {...l, ...editForm}
\* takes every field of the draft, its id too
saveEditingSuccess(c) ==
    /\ logs' = [k \in DOMAIN logs |->
                   IF logs[k].id = c.id THEN c.draft ELSE logs[k]]
    /\ editingId' = NoId
    /\ UNCHANGED <<error, editForm>>

\* saveEditing after its await, the update having failed with msg
saveEditingError(msg) ==
    /\ error' = msg
    /\ UNCHANGED <<logs, editingId, editForm>>

\* the store answers an update call
SaveSucceeds ==
    /\ \E i \in DOMAIN calls :
          /\ calls[i].op = "update"
          /\ calls' = Remove(calls, i)
          /\ saveEditingSuccess(calls[i])
    /\ UNCHANGED <<loading, selects, logsFetch>>
    /\ UNCHANGED <<calcVars, out, shuffled, formVars, submitVars>>

\* the store answers an update call with an error
SaveFails ==
    /\ \E i \in DOMAIN calls :
          /\ calls[i].op = "update"
          /\ calls' = Remove(calls, i)
          /\ \E msg \in StoreMessages : saveEditingError(msg)
    /\ UNCHANGED <<loading, selects, logsFetch>>
    /\ UNCHANGED <<calcVars, out, shuffled, formVars, submitVars>>

\* a delete that does not wait for the answer of confirm()
handleDeleteUnasked(id, confirmed) ==
    /\ logs' = SelectSeq(logs, LAMBDA l : l.id # id)
    /\ calls' = Append(calls, [op |-> "delete", id |-> id,
                               draft |-> NoDraft, body |-> NoBody,
                               prev |-> logs])

\* handleDelete(id) up to its await; confirmed is the answer of confirm()
handleDelete(id, confirmed) ==
    IF ~confirmed THEN UNCHANGED <<logs, calls>>
    ELSE /\ logs' = SelectSeq(logs, LAMBDA l : l.id # id)
         /\ calls' = Append(calls, [op |-> "delete", id |-> id,
                                    draft |-> NoDraft, body |-> NoBody,
                                    prev |-> logs])

\* the Delete button of a plain row, while fewer than limit calls await
\* their answer
DeleteButton(limit) ==
    /\ Len(calls) < limit
    /\ \E k \in DOMAIN logs, confirmed \in BOOLEAN :
          /\ Rendered(logs[k].id)
          /\ editingId # logs[k].id
          /\ handleDelete(logs[k].id, confirmed)
    /\ UNCHANGED <<loading, error, editingId, editForm, selects, logsFetch>>
    /\ UNCHANGED <<calcVars, out, shuffled, formVars, submitVars>>

DeleteClick == DeleteButton(MaxCalls)

\* the Delete button clicked while an earlier delete awaits its answer
DeleteClickOverlapping == DeleteButton(MaxDeletes)

\* the store answers a delete call
DeleteSucceeds ==
    /\ \E i \in DOMAIN calls :
          /\ calls[i].op = "delete"
          /\ calls' = Remove(calls, i)
    /\ UNCHANGED <<logs, loading, error, editingId, editForm, selects,
                   logsFetch>>
    /\ UNCHANGED <<calcVars, out, shuffled, formVars, submitVars>>

\* `Failed to delete`
FailedToDelete == <<"F", "a", "i", "l", "e", "d", " ", "t", "o", " ",
                    "d", "e", "l", "e", "t", "e">>

\* the store answers a delete call with an error: the list of the render
\* the button was clicked in is put back
DeleteFails ==
    /\ \E i \in DOMAIN calls :
          /\ calls[i].op = "delete"
          /\ calls' = Remove(calls, i)
          /\ error' = FailedToDelete
          /\ logs' = calls[i].prev
    /\ UNCHANGED <<loading, editingId, editForm, selects, logsFetch>>
    /\ UNCHANGED <<calcVars, out, shuffled, formVars, submitVars>>

\* the table is not mounted
TableUnmounted ==
    /\ loading = TRUE
    /\ error = <<>>
    /\ editingId = NoId
    /\ editForm = NoDraft
    /\ selects = 0
    /\ logsFetch = "none"
    /\ calls = <<>>

(***************************************************************************)
(* TimeLogForm.tsx: the form is unmounted and mounted again.               *)
(***************************************************************************)
\* the unmount runs the cleanup of the timer effect; the mount starts from
\* the initial values of useState, runs the timer effect with an idle
\* timer and sends the task-name select.  The form is left while no insert
\* awaits its answer.
Remount ==
    /\ inserts = <<>>
    /\ taskName' = <<>>
    /\ notes' = <<>>
    /\ startTime' = Absent
    /\ endTime' = Absent
    /\ timerRunning' = FALSE
    /\ timerStart' = NoDate
    /\ TimerEffect(FALSE, NoDate)
    /\ suggestedTasks' = PREDEFINED_TASKS
    /\ tasksFetch' = FetchSent
    /\ UNCHANGED <<now, inserts, toast, storeTasks, savedTasks>>
    /\ UNCHANGED <<calcVars, out, logVars, tableVars>>

(***************************************************************************)
(* The results of the pure operations.                                     *)
(***************************************************************************)
ZeroTotals == [totalHours |-> Num(0), totalMinutes |-> Num(0)]

NoOut == [op |-> "none", hm |-> <<Num(0), Num(0)>>, text |-> <<>>,
          totals |-> ZeroTotals, totalsShuffled |-> ZeroTotals,
          file |-> FALSE, csv |-> <<>>, signal |-> <<>>]

\* the form after its mount: the task-name select is on its way
FormMounted ==
    /\ taskName = <<>>
    /\ notes = <<>>
    /\ startTime = Absent
    /\ endTime = Absent
    /\ timerRunning = FALSE
    /\ timerStart = NoDate
    /\ timerElapsed = 0
    /\ interval = 0
    /\ now = 0
    /\ suggestedTasks = PREDEFINED_TASKS
    /\ inserts = <<>>
    /\ toast = NoToast
    /\ tasksFetch = FetchSent
    /\ savedTasks = {}

FormIdle == FormMounted /\ storeTasks = {}

(***************************************************************************)
(* Duration specification: calculateHoursWorked and formatDuration applied *)
(* to every pair of timestamp strings drawn from TimeInputs.               *)
(***************************************************************************)
TimeInputs ==
    {Absent, Invalid} \cup
    { Iso(h * MsPerHour + m * MsPerMinute + r) :
        h \in 0..MaxHour, m \in {0, 1, 59}, r \in {0, 59999} }

InitCalc ==
    /\ argStart \in TimeInputs
    /\ argEnd \in TimeInputs
    /\ out = NoOut
    /\ logs = <<>>
    /\ shuffled = <<>>
    /\ FormIdle
    /\ TableUnmounted

Calculate ==
    /\ out.op = "none"
    /\ out' = [NoOut EXCEPT !.op = "calc",
                            !.hm = calculateHoursWorked(argStart, argEnd)]
    /\ UNCHANGED <<calcVars, logVars, formVars, submitVars, tableVars>>

Format ==
    /\ out.op = "calc"
    /\ out' = [out EXCEPT !.op = "format",
                          !.text = formatDuration(out.hm[1], out.hm[2])]
    /\ UNCHANGED <<calcVars, logVars, formVars, submitVars, tableVars>>

NextCalc == Calculate \/ Format

SpecCalc == InitCalc /\ [][NextCalc]_vars

(***************************************************************************)
(* Entry-list specification: the aggregate totals and the CSV export       *)
(* applied to every entry list of at most MaxLogs entries.                 *)
(***************************************************************************)
EntryNames == {<<"a">>, <<"b", COMMA, "c">>}
EntryNotes == {<<>>, <<"h", DQ, NL>>}
EntryStarts == {Iso(0), Invalid}
EntryEnds == {Absent, Iso(45 * MsPerMinute + 30 * MsPerSecond),
              Iso(2 * MsPerHour + 30 * MsPerMinute)}

EntryData == [task_name : EntryNames, start_time : EntryStarts,
              end_time : EntryEnds, notes : EntryNotes]

\* the lists a select can return: ids are unique
InitLogs ==
    /\ logs \in UNION { {[i \in 1..n |->
                            [id |-> i, task_name |-> f[i].task_name,
                             start_time |-> f[i].start_time,
                             end_time |-> f[i].end_time,
                             notes |-> f[i].notes]] : f \in [1..n -> EntryData]}
                        : n \in 0..MaxLogs }
    /\ shuffled = <<>>
    /\ out = NoOut
    /\ argStart = Absent
    /\ argEnd = Absent
    /\ FormIdle
    /\ TableUnmounted

\* the totals of the list, and of the same entries in another order
Aggregate ==
    /\ out.op = "none"
    /\ \E p \in Permutations(1..Len(logs)) :
          /\ shuffled' = [i \in 1..Len(logs) |-> logs[p[i]]]
          /\ out' = [NoOut EXCEPT !.op = "totals",
                                  !.totals = Totals(logs),
                                  !.totalsShuffled = Totals(shuffled')]
    /\ UNCHANGED <<calcVars, logs, formVars, submitVars, tableVars>>

ExportCSV ==
    /\ out.op = "none"
    /\ LET r == handleExportCSV(logs)
       IN  out' = [NoOut EXCEPT !.op = "export", !.file = r.file,
                                !.csv = r.csv, !.signal = r.signal]
    /\ UNCHANGED <<calcVars, logVars, formVars, submitVars, tableVars>>

NextLogs == Aggregate \/ ExportCSV

SpecLogs == InitLogs /\ [][NextLogs]_vars

(***************************************************************************)
(* Form specification: TimeLogForm.                                        *)
(***************************************************************************)
InitForm ==
    /\ FormIdle
    /\ TableUnmounted
    /\ argStart = Absent
    /\ argEnd = Absent
    /\ out = NoOut
    /\ logs = <<>>
    /\ shuffled = <<>>

NextForm ==
    \/ handleTimerClick
    \/ IntervalTick
    \/ PassTime
    \/ setTaskName
    \/ setNotes
    \/ setStartTime
    \/ setEndTime

SpecForm == InitForm /\ [][NextForm]_vars

Spec == SpecForm

(***************************************************************************)
(* Submission specification: TimeLogForm with its submissions, the store's *)
(* answers and the task-name fetch of the mount.                           *)
(***************************************************************************)
\* the task names the store may hold when the form mounts
StoredTaskSets == {{}, {<<>>, <<"D">>, PREDEFINED_TASKS[7]}}

InitSubmit ==
    /\ FormMounted
    /\ TableUnmounted
    /\ storeTasks \in StoredTaskSets
    /\ argStart = Absent
    /\ argEnd = Absent
    /\ out = NoOut
    /\ logs = <<>>
    /\ shuffled = <<>>

NextSubmit ==
    \/ setTaskName
    \/ setNotes
    \/ setStartTime
    \/ setEndTime
    \/ handleTimerClick
    \/ IntervalTick
    \/ PassSecond
    \/ handleSubmit
    \/ InsertSucceeds
    \/ InsertFails
    \/ InsertThrows
    \/ Remount

SpecSubmit == InitSubmit /\ [][NextSubmit]_vars

(***************************************************************************)
(* Suggestion specification: the submissions of TimeLogForm together with  *)
(* the task-name fetch of its mount.                                       *)
(***************************************************************************)
NextSuggest ==
    \/ setTaskName
    \/ setStartTime
    \/ handleSubmit
    \/ InsertSucceeds
    \/ InsertFails
    \/ InsertThrows
    \/ SelectTasks
    \/ fetchTasks

SpecSuggest == InitSubmit /\ [][NextSuggest]_vars

(***************************************************************************)
(* Table specification: DashboardTable from its mount on.                  *)
(***************************************************************************)
\* the state after the mount: useState's initial values, and the select of
\* fetchLogs on its way
InitTable ==
    /\ logs = <<>>
    /\ loading = TRUE
    /\ error = <<>>
    /\ editingId = NoId
    /\ editForm = NoDraft
    /\ selects = 1
    /\ logsFetch = "sent"
    /\ calls = <<>>
    /\ shuffled = <<>>
    /\ out = NoOut
    /\ argStart = Absent
    /\ argEnd = Absent
    /\ FormIdle

NextTable ==
    \/ FetchLogsSucceeds
    \/ FetchLogsFails
    \/ startEditing
    \/ cancelEditing
    \/ onChangeDraft
    \/ SaveClick
    \/ SaveSucceeds
    \/ SaveFails
    \/ DeleteClick
    \/ DeleteSucceeds
    \/ DeleteFails

SpecTable == InitTable /\ [][NextTable]_vars

\* the table when the store answers the select of the mount
SpecTableAnswered ==
    SpecTable /\ WF_vars(FetchLogsSucceeds \/ FetchLogsFails)

(***************************************************************************)
(* Overlapping-deletes specification: the table after a successful load of *)
(* at most MaxDeleteRows rows; deletes are confirmed while earlier deletes *)
(* await their answer, at most MaxDeletes at once.                         *)
(***************************************************************************)
DeleteLists == { [i \in 1..n |-> TableRow(i)] : n \in 0..MaxDeleteRows }

InitDelete ==
    /\ logs \in DeleteLists
    /\ loading = FALSE
    /\ error = <<>>
    /\ editingId = NoId
    /\ editForm = NoDraft
    /\ selects = 1
    /\ logsFetch = "ok"
    /\ calls = <<>>
    /\ shuffled = <<>>
    /\ out = NoOut
    /\ argStart = Absent
    /\ argEnd = Absent
    /\ FormIdle

NextDelete ==
    \/ startEditing
    \/ cancelEditing
    \/ DeleteClickOverlapping
    \/ DeleteSucceeds
    \/ DeleteFails

SpecDelete == InitDelete /\ [][NextDelete]_vars

(***************************************************************************)
(* Claims about calculateHoursWorked and formatDuration (SpecCalc).        *)
(***************************************************************************)
Calculated == out.op \in {"calc", "format"}
BothParse == argStart.kind = "iso" /\ argEnd.kind = "iso"
Zero2 == <<Num(0), Num(0)>>

\* C1: for parsable timestamps with end strictly earlier than start
\* calculateHoursWorked returns (0, 0), and no result has a negative hours
\* or minutes component.
C1_NegativeClampedToZero ==
    Calculated =>
        /\ (BothParse /\ argEnd.ms < argStart.ms) => out.hm = Zero2
        /\ ~Negative(out.hm[1])
        /\ ~Negative(out.hm[2])

C1_Witness ==
    /\ Calculated
    /\ BothParse
    /\ argEnd.ms < argStart.ms
    /\ argStart.ms - argEnd.ms > MsPerHour

\* C2: calculateHoursWorked returns (0, 0) whenever start or end is absent
\* or is a non-empty string that does not parse.
C2_AbsentOrUnparsableIsZero ==
    (Calculated /\ ~BothParse) => out.hm = Zero2

\* C3: for parsable timestamps with end >= start the result is a pair of
\* integers (h, m) with h >= 0 and m in 0..59 such that h hours and m
\* minutes is the difference with its leftover seconds cut off:
\* (60h + m) minutes <= diff < (60h + m + 1) minutes.
C3_FloorHoursMinutes ==
    (Calculated /\ BothParse /\ argEnd.ms >= argStart.ms) =>
        LET diff == argEnd.ms - argStart.ms
            h == out.hm[1]
            m == out.hm[2]
        IN  /\ IsNum(h) /\ IsNum(m)
            /\ h.v >= 0
            /\ m.v \in 0..59
            /\ (h.v * MinutesPerHour + m.v) * MsPerMinute <= diff
            /\ diff < (h.v * MinutesPerHour + m.v + 1) * MsPerMinute

C3_Witness ==
    /\ Calculated
    /\ BothParse
    /\ argEnd.ms - argStart.ms = MsPerHour + MsPerMinute + 59999
    /\ out.hm = <<Num(1), Num(1)>>

\* C6 as claimed: (0,0) renders as "0h 0m", (h,0) as "{h}h", (0,m) as
\* "{m}m" and every other (h,m) as "{h}h {m}m".
C6_FormatDropsZeroUnit ==
    (out.op = "format" /\ IsNum(out.hm[1]) /\ IsNum(out.hm[2])) =>
        LET h == out.hm[1].v
            m == out.hm[2].v
        IN  out.text =
              IF h = 0 /\ m = 0 THEN <<"0", "h", " ", "0", "m">>
              ELSE IF m = 0 THEN Digits(h) \o <<"h">>
              ELSE IF h = 0 THEN Digits(m) \o <<"m">>
              ELSE Digits(h) \o <<"h", " ">> \o Digits(m) \o <<"m">>

\* C6 amended: (0,0) renders as "0m", (0,m) as "{m}m", and every (h,m)
\* with h > 0 as "{h}h {m}m", also when m is 0 ("{h}h 0m").
C6_FormatAsCoded ==
    (out.op = "format" /\ IsNum(out.hm[1]) /\ IsNum(out.hm[2])) =>
        LET h == out.hm[1].v
            m == out.hm[2].v
        IN  out.text =
              IF h = 0 THEN Digits(m) \o <<"m">>
              ELSE Digits(h) \o <<"h", " ">> \o Digits(m) \o <<"m">>

C6_Witness ==
    /\ out.op = "format"
    /\ out.hm = <<Num(2), Num(0)>>
    /\ out.text = <<"2", "h", " ", "0", "m">>

(***************************************************************************)
(* Reading a CSV text back: the records and raw fields of a text, split at *)
(* the commas and newlines that are outside double quotes.                 *)
(***************************************************************************)
\* the positions of the commas and newlines of t that are outside quotes:
\* those with an even number of quote characters before them
Separators(t) ==
    LET q == [i \in 1..Len(t) |->
                Cardinality({k \in 1..(i - 1) : t[k] = DQ})]
    IN  {i \in 1..Len(t) : t[i] \in {COMMA, NL} /\ q[i] % 2 = 0}

\* the pieces of t between the cuts (positions in increasing order)
Pieces(t, cuts, from, to) ==
    LET edges == {from - 1} \cup {c \in cuts : from <= c /\ c <= to}
                 \cup {to + 1}
        starts == edges \ {to + 1}
        nth(k) == CHOOSE b \in starts :
                     Cardinality({x \in starts : x < b}) = k - 1
        next(b) == CHOOSE e \in edges :
                     e > b /\ \A x \in edges : x > b => e <= x
    IN  [k \in 1..Cardinality(starts) |-> <<nth(k) + 1, next(nth(k)) - 1>>]

\* the records of t, each the sequence of its raw fields
CsvRecords(t) ==
    LET seps == Separators(t)
        lines == Pieces(t, {i \in seps : t[i] = NL}, 1, Len(t))
    IN  [r \in 1..Len(lines) |->
           LET flds == Pieces(t, {i \in seps : t[i] = COMMA},
                              lines[r][1], lines[r][2])
           IN  [f \in 1..Len(flds) |-> SubSeq(t, flds[f][1], flds[f][2])]]

\* the text up to the first newline
FirstLine(t) ==
    LET nls == {i \in 1..Len(t) : t[i] = NL}
    IN  IF nls = {} THEN t
        ELSE SubSeq(t, 1, (CHOOSE i \in nls : \A k \in nls : i <= k) - 1)

RECURSIVE Undouble(_)
\* two adjacent quotes read as one
Undouble(t) ==
    IF Len(t) = 0 THEN <<>>
    ELSE IF Len(t) >= 2 /\ t[1] = DQ /\ t[2] = DQ
         THEN <<DQ>> \o Undouble(SubSeq(t, 3, Len(t)))
    ELSE <<Head(t)>> \o Undouble(Tail(t))

IsQuoted(raw) == Len(raw) >= 2 /\ raw[1] = DQ /\ raw[Len(raw)] = DQ

\* the cell value a raw field stands for
Decode(raw) ==
    IF IsQuoted(raw) THEN Undouble(SubSeq(raw, 2, Len(raw) - 1)) ELSE raw

CountQuotes(t) == Cardinality({i \in 1..Len(t) : t[i] = DQ})

IsSpecial(cell) == \E i \in 1..Len(cell) : cell[i] \in {COMMA, DQ, NL}

(***************************************************************************)
(* Claims about the aggregate totals and the CSV export (SpecLogs).        *)
(***************************************************************************)
RECURSIVE SumHours(_)
SumHours(ls) ==
    IF Len(ls) = 0 THEN Num(0)
    ELSE Add(calculateHoursWorked(Head(ls).start_time, Head(ls).end_time)[1],
             SumHours(Tail(ls)))

RECURSIVE SumMins(_)
SumMins(ls) ==
    IF Len(ls) = 0 THEN Num(0)
    ELSE Add(calculateHoursWorked(Head(ls).start_time, Head(ls).end_time)[2],
             SumMins(Tail(ls)))

\* C4: for any list of entries totalMinutes is in 0..59 and
\* totalHours * 60 + totalMinutes is the sum over the entries of
\* hours * 60 + minutes.
C4_TotalsAreCarrySum ==
    out.op = "totals" =>
        LET th == out.totals.totalHours
            tm == out.totals.totalMinutes
        IN  /\ IsNum(th) /\ IsNum(tm)
            /\ tm.v \in 0..59
            /\ Add(Times(th, MinutesPerHour), tm)
                 = Add(Times(SumHours(logs), MinutesPerHour), SumMins(logs))

\* C5: the totals of a list are the totals of every permutation of it.
C5_TotalsPermutationInvariant ==
    out.op = "totals" => out.totals = out.totalsShuffled

C5_Witness ==
    /\ out.op = "totals"
    /\ Len(logs) = 2
    /\ shuffled = <<logs[2], logs[1]>>
    /\ calculateHoursWorked(logs[1].start_time, logs[1].end_time)
         = <<Num(2), Num(30)>>
    /\ calculateHoursWorked(logs[2].start_time, logs[2].end_time)
         = <<Num(0), Num(45)>>
    /\ out.totals = [totalHours |-> Num(3), totalMinutes |-> Num(15)]

\* C7 as claimed: an export of the empty list makes no file and signals
\* a "nothing to export" condition to the user.
C7_EmptyExportSignals ==
    (out.op = "export" /\ Len(logs) = 0) =>
        /\ ~out.file
        /\ out.signal # <<>>

\* C7 amended: an export of the empty list makes no file and shows no
\* message: the handler returns silently.
C7_EmptyExportSilent ==
    (out.op = "export" /\ Len(logs) = 0) =>
        /\ ~out.file
        /\ out.csv = <<>>
        /\ out.signal = <<>>

C7_Witness == out.op = "export" /\ Len(logs) = 0

SpecHeader == <<"T", "a", "s", "k", ",",
                "S", "t", "a", "r", "t", " ", "T", "i", "m", "e", ",",
                "E", "n", "d", " ", "T", "i", "m", "e", ",",
                "D", "u", "r", "a", "t", "i", "o", "n", ",",
                "N", "o", "t", "e", "s">>

CodeHeader == <<"T", "a", "s", "k", ",",
                "S", "t", "a", "r", "t", ",",
                "E", "n", "d", ",",
                "D", "u", "r", "a", "t", "i", "o", "n", ",",
                "N", "o", "t", "e", "s">>

\* record i + 1 of the file stands for entry i of the list
RowsFollowList ==
    LET recs == CsvRecords(out.csv)
    IN  /\ Len(recs) = 1 + Len(logs)
        /\ \A i \in 1..Len(logs) :
              /\ Len(recs[i + 1]) = 5
              /\ \A j \in 1..5 : Decode(recs[i + 1][j]) = RowCells(logs[i])[j]

\* C8 as claimed: the first line of an exported file is
\* Task,Start Time,End Time,Duration,Notes and one data row per entry
\* follows, in list order.
C8_HeaderAsSpecified ==
    (out.op = "export" /\ out.file) =>
        /\ FirstLine(out.csv) = SpecHeader
        /\ RowsFollowList

\* C8 amended: the first line of an exported file is
\* Task,Start,End,Duration,Notes and one data row per entry follows, in
\* list order.
C8_HeaderAsCoded ==
    (out.op = "export" /\ out.file) =>
        /\ FirstLine(out.csv) = CodeHeader
        /\ RowsFollowList

C8_Witness ==
    /\ out.op = "export"
    /\ out.file
    /\ Len(logs) = 2
    /\ logs[1].task_name # logs[2].task_name
    /\ logs[1].notes = <<"h", DQ, NL>>

\* C9 as claimed: a cell is wrapped in double quotes, its quotes doubled,
\* if and only if it holds a comma, a quote or a newline; any other cell is
\* written unchanged.
C9_EscapeOnlyWhenSpecial ==
    (out.op = "export" /\ out.file) =>
        LET recs == CsvRecords(out.csv)
        IN  /\ Len(recs) = 1 + Len(logs)
            /\ \A i \in 1..Len(logs) : \A j \in 1..5 :
                  LET cell == RowCells(logs[i])[j]
                      raw == recs[i + 1][j]
                  IN  IF IsSpecial(cell)
                      THEN /\ IsQuoted(raw)
                           /\ Decode(raw) = cell
                           /\ CountQuotes(raw) = 2 + 2 * CountQuotes(cell)
                      ELSE raw = cell

\* C9 amended: every cell is wrapped in double quotes, its quotes doubled,
\* whatever it holds; no cell is written unquoted.
C9_EscapeAlwaysQuotes ==
    (out.op = "export" /\ out.file) =>
        LET recs == CsvRecords(out.csv)
        IN  /\ Len(recs) = 1 + Len(logs)
            /\ \A i \in 1..Len(logs) : \A j \in 1..5 :
                  LET cell == RowCells(logs[i])[j]
                      raw == recs[i + 1][j]
                  IN  /\ IsQuoted(raw)
                      /\ Len(raw) = Len(cell) + CountQuotes(cell) + 2
                      /\ Decode(raw) = cell
                      /\ CountQuotes(raw) = 2 + 2 * CountQuotes(cell)

C9_Witness ==
    /\ out.op = "export"
    /\ out.file
    /\ \E i \in 1..Len(logs) :
          /\ logs[i].task_name = <<"a">>
          /\ logs[i].notes = <<"h", DQ, NL>>
          /\ CsvRecords(out.csv)[i + 1][1] = <<DQ, "a", DQ>>
          /\ CsvRecords(out.csv)[i + 1][5] = <<DQ, "h", DQ, DQ, NL, DQ>>

(***************************************************************************)
(* Claims about the timer of the form (SpecForm).                          *)
(***************************************************************************)
\* the first millisecond of the minute the instant t lies in
StartOfMinute(t) == t - (t % MsPerMinute)

C11_TimerRunOf125sIsTwoMinutes ==
    [][(/\ handleTimerClick
        /\ timerRunning
        /\ timerStart.set
        /\ now = timerStart.ms + 125 * MsPerSecond
        /\ startTime = formatDateTimeLocal(timerStart.ms))
       => calculateHoursWorked(startTime', endTime') = <<Num(0), Num(2)>>]_vars

(***************************************************************************)
(* Claims about the submission of the form (SpecSubmit).                   *)
(***************************************************************************)
\* C12: a submission with an empty task_name or an empty start_time is
\* blocked locally: the store's insert is never called with task_name = ''
\* or start_time = ''; an empty end_time or empty notes does not block the
\* submission (whenever task_name and start_time are filled, and the model's
\* bound on calls in flight allows one more, the form can be submitted).
C12_RequiredFieldsBlockSubmit ==
    /\ \A i \in DOMAIN inserts :
          /\ inserts[i].task_name # <<>>
          /\ inserts[i].start_time.kind # "absent"
    /\ (taskName # <<>> /\ startTime.kind # "absent"
        /\ Len(inserts) < MaxInFlight) => ENABLED handleSubmit

\* an insert is in flight that was submitted with empty end_time and notes,
\* and the form, its start_time cleared since, cannot be submitted again
C12_Witness ==
    /\ \E i \in DOMAIN inserts :
          inserts[i].end_time = Absent /\ inserts[i].notes = <<>>
    /\ taskName # <<>>
    /\ startTime = Absent

FormEmptyIdle ==
    /\ taskName = <<>>
    /\ notes = <<>>
    /\ startTime = Absent
    /\ endTime = Absent
    /\ ~timerRunning
    /\ timerStart = NoDate
    /\ timerElapsed = 0

\* C13: when an insert succeeds the form ends in the empty idle state:
\* task_name, notes, start_time and end_time are empty, the timer is not
\* running, timerStart is null and the elapsed counter is 0, whatever the
\* user typed or did with the timer while the insert was in flight.
C13_SuccessResetsForm ==
    [][InsertSucceeds => FormEmptyIdle']_vars

\* an insert has succeeded a second after the mount and left the form empty
\* and idle, with no interval running
C13_Witness ==
    /\ toast.kind = "success"
    /\ savedTasks # {}
    /\ inserts = <<>>
    /\ FormEmptyIdle
    /\ interval = 0
    /\ now = MsPerSecond

\* C15: when an insert fails, with an error reported by the store or with a
\* thrown exception, the handler leaves task_name, notes, start_time,
\* end_time, the timer state and the suggested names unchanged and shows an
\* error toast (with the store's message when the store reported one).
C15_FailureKeepsForm ==
    [][(InsertFails \/ InsertThrows) =>
         /\ UNCHANGED <<taskName, notes, startTime, endTime, timerRunning,
                        timerStart, timerElapsed, interval, suggestedTasks>>
         /\ toast'.kind = "error"
         /\ InsertFails => toast'.description \in StoreMessages]_vars

\* an insert has failed with the store's message while the timer runs; the
\* fields are still filled
C15_Witness ==
    /\ toast.kind = "error"
    /\ toast.description \in StoreMessages
    /\ inserts = <<>>
    /\ taskName # <<>>
    /\ notes # <<>>
    /\ startTime # Absent
    /\ timerRunning
    /\ timerElapsed = 1

(***************************************************************************)
(* Claims about the suggested task names (SpecSuggest).                    *)
(***************************************************************************)
\* C14: once an insert with task name n has succeeded, n is a member of the
\* suggested task names in every later state of the form, however the
\* insert's answer interleaves with the answer of the mount's task-name
\* fetch.
C14_SavedNameStaysSuggested ==
    \A n \in savedTasks : n \in Range(suggestedTasks)

\* C16: in every reachable state of the form the suggested task names
\* contain every built-in name, contain no name twice and are sorted
\* ascending.
C16_SuggestedSortedSet ==
    /\ Range(PREDEFINED_TASKS) \subseteq Range(suggestedTasks)
    /\ \A i, j \in DOMAIN suggestedTasks :
          i < j => SortsBefore(suggestedTasks[i], suggestedTasks[j])

C18_SaveMergesDraft ==
    [][\A i \in DOMAIN calls :
          (/\ calls[i].op = "update"
           /\ calls' = Remove(calls, i)
           /\ saveEditingSuccess(calls[i]))
          => /\ DOMAIN logs' = DOMAIN logs
             /\ \A k \in DOMAIN logs :
                   IF logs[k].id = calls[i].id
                   THEN /\ logs'[k].id = calls[i].id
                        /\ logs'[k].task_name = calls[i].draft.task_name
                        /\ logs'[k].start_time = calls[i].draft.start_time
                        /\ logs'[k].end_time = calls[i].draft.end_time
                        /\ logs'[k].notes = calls[i].draft.notes
                   ELSE logs'[k] = logs[k]
             /\ editingId' # calls[i].id]_vars

\* the save of entry 2 with every field retyped has succeeded; entry 1 is as
\* it was loaded and no row is being edited
C18_Witness ==
    /\ Len(logs) = 2
    /\ logs[1] = TableRow(1)
    /\ logs[2] = [id |-> 2, task_name |-> <<"b">>,
                  start_time |-> Iso(5 * MsPerHour),
                  end_time |-> Iso(5 * MsPerHour), notes |-> <<"n">>]
    /\ editingId = NoId
    /\ calls = <<>>

\* C19: when a save fails at the store, the local entry list is unchanged,
\* the row stays in the editing state with its draft intact, and an error is
\* surfaced to the user.
C19_FailedSaveSurfacesError ==
    [][SaveFails =>
         /\ logs' = logs
         /\ editingId' = editingId
         /\ editForm' = editForm
         /\ View'.message # <<>>]_vars

\* C20: delete requires confirmation: when the user declines, the local
\* entry list is unchanged and no delete call is made; when the user
\* confirms, the entry is removed from the local list while the delete call
\* is still awaiting the store's answer.
C20_DeleteAsksFirst ==
    [][\A k \in DOMAIN logs :
          /\ (DeleteClick /\ handleDelete(logs[k].id, FALSE))
                => UNCHANGED <<logs, calls>>
          /\ (DeleteClick /\ handleDelete(logs[k].id, TRUE))
                => /\ \A j \in DOMAIN logs' : logs'[j].id # logs[k].id
                   /\ Len(logs') = Len(logs) - 1
                   /\ \E i \in DOMAIN calls' :
                         calls'[i].op = "delete" /\ calls'[i].id = logs[k].id]_vars

\* the delete of entry 1 is awaiting the store's answer and the entry has
\* left the local list
C20_Witness ==
    /\ \E i \in DOMAIN calls : calls[i].op = "delete" /\ calls[i].id = 1
    /\ Len(logs) = 1
    /\ logs[1].id = 2


(***************************************************************************)
(* Claims about failed and overlapping deletes (SpecDelete).               *)
(***************************************************************************)
\* the step is the error branch of the delete call at position i
DeleteFailsAt(i) ==
    /\ i \in DOMAIN calls
    /\ calls[i].op = "delete"
    /\ calls' = Remove(calls, i)
    /\ ~DeleteSucceeds

\* the list without the entry of this id
Without(ls, id) == SelectSeq(ls, LAMBDA l : l.id # id)

\* C21: when a confirmed delete of an entry fails at the store and nothing
\* else happened since the click (no other call awaits its answer and the
\* list is still the clicked list without the entry), the local list is
\* the list of before the click again, the entry at its original position,
\* and an error is shown to the user.
C21_FailedDeleteRestoresAndShows ==
    [][(/\ DeleteFailsAt(1)
        /\ Len(calls) = 1
        /\ logs = Without(calls[1].prev, calls[1].id))
       => (/\ logs' = calls[1].prev
           /\ View'.message # <<>>)]_vars

\* C26: also when deletes overlap, the rollback of a failed delete changes
\* the local list only by putting back the entry whose delete failed: the
\* other entries of the list are what they were before the answer, so that
\* an entry deleted at the store does not come back and a saved edit is
\* not reverted.
C26_RollbackOnlyReinserts ==
    [][\A i \in DOMAIN calls :
          DeleteFailsAt(i) => Without(logs', calls[i].id) = logs]_vars

\* the list part of C21 alone
FailedDeleteRestoresList ==
    [][(/\ DeleteFailsAt(1)
        /\ Len(calls) = 1
        /\ logs = Without(calls[1].prev, calls[1].id))
       => logs' = calls[1].prev]_vars


(***************************************************************************)
(* Claims about the table controller (SpecTable).                          *)
(***************************************************************************)
\* C22: for each of insert, select, update and delete, when the store
\* reports an error the message shown to the user is the store's error
\* message verbatim: the toast's description for an insert, the message the
\* table renders for a select, an update and a delete.
C22_StoreMessageShownVerbatim ==
    [][/\ InsertFails => toast'.description \in StoreMessages
       /\ (FetchLogsFails \/ SaveFails \/ DeleteFails)
             => View'.message \in StoreMessages]_vars

\* what the error state holds after a failed select or update
ErrorStateHoldsStoreMessage ==
    [][(FetchLogsFails \/ SaveFails) => error' \in StoreMessages]_vars


\* C23: in every state of the table the aggregate in the footer is the
\* carry-sum of calculateHoursWorked over the entries of the local list,
\* with their saved values and not the values of an open draft: whole
\* numbers, the minutes in 0..59, and as many minutes in all as the hours
\* and minutes of the entries add up to.
C23_DisplayedTotalsFollowList ==
    LET th == View.totals.totalHours
        tm == View.totals.totalMinutes
    IN  /\ IsNum(th) /\ IsNum(tm)
        /\ tm.v \in 0..59
        /\ Add(Times(th, MinutesPerHour), tm)
             = Add(Times(SumHours(logs), MinutesPerHour), SumMins(logs))

\* a row saved with another duration is being edited again, and its draft
\* has yet another duration
C23_Witness ==
    /\ Len(logs) = 2
    /\ calls = <<>>
    /\ editingId = 2
    /\ calculateHoursWorked(logs[2].start_time, logs[2].end_time)
         = <<Num(1), Num(45)>>
    /\ calculateHoursWorked(editForm.start_time, editForm.end_time) = Zero2
    /\ View.totals = [totalHours |-> Num(1), totalMinutes |-> Num(45)]


\* C24: cancelling an edit issues no store call and leaves the local list
\* unchanged, and whenever a row enters the editing state its draft is a
\* copy of the saved fields of that row, whatever draft was cancelled
\* before.
C24_CancelDropsDraft ==
    [][/\ cancelEditing => (calls' = calls /\ logs' = logs)
       /\ (editingId' # editingId /\ editingId' # NoId)
             => \E k \in DOMAIN logs :
                   /\ logs[k].id = editingId'
                   /\ editForm' = logs[k]]_vars

\* a changed draft has been cancelled: no row is open, nothing was saved or
\* sent, and the Edit buttons are there to be clicked
C24_Witness ==
    /\ Len(logs) = 2
    /\ editingId = NoId
    /\ editForm.task_name \in DraftNames
    /\ editForm.end_time \in DraftTimes
    /\ \A k \in DOMAIN logs : logs[k] = TableRow(k)
    /\ calls = <<>>
    /\ error = <<>>
    /\ ENABLED startEditing


(***************************************************************************)
(* Claims about the timer's tick (SpecSubmit).                             *)
(***************************************************************************)
\* C25: the elapsed tick fires only while the timer is running: at most one
\* tick interval is active at any time, and whenever the timer is idle
\* (after the mount, after a stop, after a successful submit, after the
\* form was left) no tick interval is active and the elapsed counter is 0.
C25_TickOnlyWhileRunning ==
    /\ [](/\ interval \in {0, 1}
          /\ ~timerRunning => (interval = 0 /\ timerElapsed = 0))
    /\ [][IntervalTick => timerRunning]_vars

\* the timer ran for a second and more and was stopped
C25_Witness ==
    /\ ~timerRunning
    /\ timerStart.set
    /\ endTime.kind = "iso"
    /\ now >= timerStart.ms + MsPerSecond
    /\ interval = 0
    /\ timerElapsed = 0


(***************************************************************************)
(* Claims about answers that arrive late (SpecTable).                      *)
(***************************************************************************)
\* the step is the success branch of the update call at position i
SaveSucceedsAt(i) ==
    /\ i \in DOMAIN calls
    /\ calls[i].op = "update"
    /\ calls' = Remove(calls, i)
    /\ SaveSucceeds

\* C27: a successful save response for row X closes the editing state only
\* for X: when the user has opened another row Y while the update of X was
\* on its way, Y is still in the editing state with its draft after the
\* answer.
C27_SaveClosesOnlyItsRow ==
    [][\A i \in DOMAIN calls :
          (/\ SaveSucceedsAt(i)
           /\ editingId # NoId
           /\ editingId # calls[i].id)
          => (editingId' = editingId /\ editForm' = editForm)]_vars


\* the instant a timestamp of an entry denotes; an empty or null end_time
\* denotes none (the entry is open)
Instant(s) ==
    IF s.kind = "iso" THEN [some |-> TRUE, ms |-> s.ms]
    ELSE [some |-> FALSE, ms |-> 0]

\* C28: after saveEditing has succeeded for an entry, the local copy of the
\* entry denotes the task_name, start instant, end instant and notes that
\* were sent to the store in the update call, also for an entry whose
\* end_time is empty or null when it is edited.
C28_LocalCopyIsWhatWasSent ==
    [][\A i \in DOMAIN calls :
          SaveSucceedsAt(i) =>
              \A k \in DOMAIN logs' :
                  logs'[k].id = calls[i].id =>
                      /\ logs'[k].task_name = calls[i].body.task_name
                      /\ Instant(logs'[k].start_time)
                           = Instant(calls[i].body.start_time)
                      /\ Instant(logs'[k].end_time)
                           = Instant(calls[i].body.end_time)
                      /\ logs'[k].notes = calls[i].body.notes]_vars

\* C29: once the list is loaded it is ordered by start_time, latest first,
\* in every state: also after an edit-save that changes the start_time of
\* an entry and after the rollback of a delete.
C29_ListOrderedByStartDescending ==
    logsFetch = "ok" =>
        \A j, k \in DOMAIN logs :
            j < k => logs[j].start_time.ms >= logs[k].start_time.ms


(***************************************************************************)
(* Claims about the loading state (SpecTableAnswered).                     *)
(***************************************************************************)
\* C30: the loading state of the table ends: loading is true from the mount
\* until the select completes; when the store answers the select, with data
\* or with an error, loading becomes false, and it stays false from then
\* on; while loading is true the list is empty and no edit, delete or
\* export can be started.
C30_LoadingEnds ==
    /\ [](/\ loading <=> logsFetch = "sent"
          /\ loading =>
                /\ logs = <<>>
                /\ exportDisabled
                /\ ~ENABLED startEditing
                /\ ~ENABLED DeleteClick
                /\ ~ENABLED SaveClick)
    /\ [][/\ (FetchLogsSucceeds \/ FetchLogsFails) => ~loading'
          /\ ~loading => ~loading']_vars
    /\ <>[]~loading

\* the select was answered with an error and the spinner is gone
C30_Witness ==
    /\ ~loading
    /\ logsFetch = "failed"
    /\ error \in StoreMessages
    /\ logs = <<>>
    /\ View.spinner = FALSE

====
